---- MODULE Spec2Model ----
(***************************************************************************)
(* A model of the 3xui-shop bot: the YooKassa payment gateway and its      *)
(* webhook (app/bot/payment_gateways/yookassa.py), the Promocode table     *)
(* (app/db/models/promocode.py), the Telegram handlers                     *)
(* (app/bot/routes/...), and the compressing log handler (app/logger.py).  *)
(*                                                                         *)
(* Each subsystem has its own next-state relation and specification; the   *)
(* variables of the other subsystems stay as Init leaves them.             *)
(***************************************************************************)
EXTENDS Integers, Sequences, FiniteSets, TLC

VARIABLES
    transactions,      \* the transactions table: a set of rows
    gateway_payments,  \* payment ids YooKassa has issued (Payment.create)
    creating,          \* create_payment calls between Payment.create and Transaction.create
    notified,          \* payment ids for which the webhook dispatched a handler
    webhook,           \* the last webhook request and what webhook_handler answered
    promocodes,        \* the promocodes table: a set of rows
    promocode_seq,     \* the last id the table's autoincrement gave out
    promo,             \* the last call of a Promocode method and what it returned
    chat,              \* ids of the messages that exist in the user's chat
    message_seq,       \* the last message id Telegram gave out in the chat
    fsm,               \* the data of the user's FSMContext
    subscriptions,     \* what the VPN service was asked to grant
    bot,               \* the last run of a Telegram handler and how it ended
    files,             \* the log directory: a set of files, each a name and its data
    stream,            \* the handler's stream: closed, or open on a linked or unlinked file
    rolloverAt,        \* the day at whose start the handler rolls over
    clock,             \* the current day
    archive_format,    \* config.ARCHIVE_FORMAT
    info_enabled,      \* whether config.LEVEL lets INFO records through
    log_history        \* the records logged: before and since the last rollover

yookassa_vars == <<transactions, gateway_payments, creating, notified, webhook>>

promocode_vars == <<promocodes, promocode_seq, promo>>

bot_vars == <<chat, message_seq, fsm, subscriptions, bot>>

logger_vars == <<files, stream, rolloverAt, clock, archive_format, info_enabled, log_history>>

vars == <<yookassa_vars, promocode_vars, bot_vars, logger_vars>>

\* What an action of one subsystem leaves alone.
not_yookassa_vars == <<promocode_vars, bot_vars, logger_vars>>

not_promocode_vars == <<yookassa_vars, bot_vars, logger_vars>>

\* The Telegram handlers write the transactions table too.
not_bot_vars ==
    <<gateway_payments, creating, notified, webhook, promocode_vars, logger_vars>>

not_logger_vars == <<yookassa_vars, promocode_vars, bot_vars>>

\* ------------------------------------------------------------------ bounds

\* Payment ids the gateway can issue are 1..MaxPayments.
MaxPayments == 2

PaymentIds == 1..MaxPayments

\* Promocode ids the autoincrement gives out are 1..MaxPromocodeId.
MaxPromocodeId == 3

\* A session handed to a Promocode method holds at most MaxPending new objects.
MaxPending == 1

\* Message ids Telegram gives out in the chat are 1..MaxMessages.
MaxMessages == 5

\* The log handler is followed over the days 1..MaxDays.
MaxDays == 4

\* The application logs at most MaxRecords records.
MaxRecords == 4

\* ---------------------------------------------------------------- constants

\* Python's None, where a row or an object is expected.
None == [none |-> TRUE]

PENDING   == "pending"
COMPLETED == "completed"
CANCELED  == "canceled"

PAYMENT_SUCCEEDED           == "payment.succeeded"
PAYMENT_CANCELED            == "payment.canceled"
PAYMENT_WAITING_FOR_CAPTURE == "payment.waiting_for_capture"

\* Event strings a notification body can carry: the two the webhook handles,
\* one more the SDK knows, and one it does not know.
Events == {PAYMENT_SUCCEEDED, PAYMENT_CANCELED, PAYMENT_WAITING_FOR_CAPTURE, "bogus.event"}

\* Events WebhookNotificationFactory().create accepts.
KnownEvents == {PAYMENT_SUCCEEDED, PAYMENT_CANCELED, PAYMENT_WAITING_FOR_CAPTURE}

TgUsers == {7}

\* SubscriptionData: what the user bought.
SubscriptionDatas ==
    [user_id : TgUsers, devices : {1}, duration : {30}, is_extend : BOOLEAN]

\* SubscriptionData.pack / unpack: the callback-data string, as the sequence
\* of its fields.
pack(data) == <<"subscription", data.user_id, data.devices, data.duration, data.is_extend>>

unpack(s) == [user_id |-> s[2], devices |-> s[3], duration |-> s[4], is_extend |-> s[5]]

\* ------------------------------------------------------------ HTTP requests

TrustedIps   == {"185.71.76.1"}
UntrustedIps == {"10.0.0.9"}
Ips == TrustedIps \cup UntrustedIps

NoHeader == "no header"

\* A body that is not JSON.
NotJson == [kind |-> "not json"]

\* A JSON body that is not a notification (no event, no object).
MalformedJson == [kind |-> "json", type |-> "hello"]

NotificationJsons == [kind : {"json"}, event : Events, object : [id : PaymentIds]]

Bodies == {NotJson, MalformedJson} \cup NotificationJsons

Requests == [xff : Ips \cup {NoHeader}, remote : Ips, body : Bodies]

\* SecurityHelper().is_ip_trusted
is_ip_trusted(ip) == ip \in TrustedIps

\* request.headers.get("X-Forwarded-For", request.remote)
SourceIpRemoteOnly(request) == request.remote

SourceIp(request) == IF request.xff # NoHeader THEN request.xff ELSE request.remote

\* ------------------------------------------------------------ Transaction

\* Transaction.get_by_id: the row with the payment id, or None.
TransactionGetById(table, payment_id) ==
    IF \E t \in table : t.payment_id = payment_id
    THEN CHOOSE t \in table : t.payment_id = payment_id
    ELSE None

\* Transaction.update(payment_id, status=...): an UPDATE ... WHERE payment_id.
TransactionUpdate(table, payment_id, status) ==
    {IF t.payment_id = payment_id THEN [t EXCEPT !.status = status] ELSE t : t \in table}

\* Transaction.create: insert a row; the payment id is unique.
TransactionCreate(table, tg_id, subscription, payment_id, status) ==
    IF \E t \in table : t.payment_id = payment_id
    THEN table
    ELSE table \cup {[payment_id |-> payment_id, tg_id |-> tg_id,
                      subscription |-> subscription, status |-> status]}

\* ------------------------------------------------- external calls that may raise

Range(seq) == {seq[i] : i \in DOMAIN seq}

\* The calls of `calls` a handler makes when the call named `fail` raises: all
\* of them when `fail` is not among them, else those up to the raising one.
CallsUntil(calls, fail) ==
    IF fail \in Range(calls)
    THEN SubSeq(calls, 1, CHOOSE i \in DOMAIN calls : calls[i] = fail)
    ELSE calls

\* The call was made and returned.
Returned(calls, fail, call) == call \in Range(calls) /\ call # fail

\* handle_payment_succeeded granting the subscription before it writes the
\* status.
SucceededCallsGrantFirst(data) ==
    <<"Transaction.get_by_id", "User.get", "redirect_to_main_menu">>
    \o (IF data.is_extend
        THEN <<"vpn.extend_subscription", "notify_extend_success">>
        ELSE <<"vpn.create_subscription", "vpn.get_key", "notify_purchase_success">>)
    \o <<"Transaction.update">>

\* The calls handle_payment_succeeded makes, in order, for the unpacked data.
SucceededCalls(data) ==
    <<"Transaction.get_by_id", "User.get", "Transaction.update", "redirect_to_main_menu">>
    \o (IF data.is_extend
        THEN <<"vpn.extend_subscription", "notify_extend_success">>
        ELSE <<"vpn.create_subscription", "vpn.get_key", "notify_purchase_success">>)

\* The calls handle_payment_canceled makes.
CanceledCalls == <<"Transaction.get_by_id", "Transaction.update">>

\* ------------------------------------------------------------------ Yookassa

\* handle_payment_succeeded returning early for a transaction that is already
\* COMPLETED.
handle_payment_succeeded_once(table, payment_id, fail) ==
    LET transaction == TransactionGetById(table, payment_id)
    IN  IF fail = "Transaction.get_by_id" \/ transaction = None
        THEN [transactions |-> table, calls |-> <<"Transaction.get_by_id">>, raised |-> TRUE]
        ELSE IF transaction.status = COMPLETED
        THEN [transactions |-> table, calls |-> <<"Transaction.get_by_id">>, raised |-> FALSE]
        ELSE LET data  == unpack(transaction.subscription)
                 calls == CallsUntil(SucceededCalls(data), fail)
             IN  [transactions |->
                      IF Returned(calls, fail, "Transaction.update")
                      THEN TransactionUpdate(table, payment_id, COMPLETED)
                      ELSE table,
                  calls  |-> calls,
                  raised |-> fail \in Range(calls)]

\* Yookassa.handle_payment_succeeded: the table afterwards, the calls made, and
\* whether an exception left the method. `fail` names the call that raises.
handle_payment_succeeded(table, payment_id, fail) ==
    LET transaction == TransactionGetById(table, payment_id)
    IN  IF fail = "Transaction.get_by_id" \/ transaction = None
        THEN \* get_by_id raised, or transaction.subscription on None did
             [transactions |-> table, calls |-> <<"Transaction.get_by_id">>, raised |-> TRUE]
        ELSE LET data  == unpack(transaction.subscription)
                 calls == CallsUntil(SucceededCalls(data), fail)
             IN  [transactions |->
                      IF Returned(calls, fail, "Transaction.update")
                      THEN TransactionUpdate(table, payment_id, COMPLETED)
                      ELSE table,
                  calls  |-> calls,
                  raised |-> fail \in Range(calls)]

\* handle_payment_canceled writing the status of the succeeded branch.
handle_payment_canceled_completes(table, payment_id, fail) ==
    LET transaction == TransactionGetById(table, payment_id)
    IN  IF fail = "Transaction.get_by_id" \/ transaction = None
        THEN [transactions |-> table, calls |-> <<"Transaction.get_by_id">>, raised |-> TRUE]
        ELSE LET calls == CallsUntil(CanceledCalls, fail)
             IN  [transactions |->
                      IF Returned(calls, fail, "Transaction.update")
                      THEN TransactionUpdate(table, payment_id, COMPLETED)
                      ELSE table,
                  calls  |-> calls,
                  raised |-> fail \in Range(calls)]

\* handle_payment_canceled updating without the WHERE clause: every row is
\* canceled.
handle_payment_canceled_every_row(table, payment_id, fail) ==
    LET transaction == TransactionGetById(table, payment_id)
    IN  IF fail = "Transaction.get_by_id" \/ transaction = None
        THEN [transactions |-> table, calls |-> <<"Transaction.get_by_id">>, raised |-> TRUE]
        ELSE LET calls == CallsUntil(CanceledCalls, fail)
             IN  [transactions |->
                      IF Returned(calls, fail, "Transaction.update")
                      THEN {[t EXCEPT !.status = CANCELED] : t \in table}
                      ELSE table,
                  calls  |-> calls,
                  raised |-> fail \in Range(calls)]

\* Yookassa.handle_payment_canceled
handle_payment_canceled(table, payment_id, fail) ==
    LET transaction == TransactionGetById(table, payment_id)
    IN  IF fail = "Transaction.get_by_id" \/ transaction = None
        THEN [transactions |-> table, calls |-> <<"Transaction.get_by_id">>, raised |-> TRUE]
        ELSE LET calls == CallsUntil(CanceledCalls, fail)
             IN  [transactions |->
                      IF Returned(calls, fail, "Transaction.update")
                      THEN TransactionUpdate(table, payment_id, CANCELED)
                      ELSE table,
                  calls  |-> calls,
                  raised |-> fail \in Range(calls)]

\* WebhookNotificationFactory().create(event_json) returns a notification
\* object; it raises for a JSON value that is not a notification of a known event.
FactoryAccepts(body) ==
    /\ "event" \in DOMAIN body
    /\ "object" \in DOMAIN body
    /\ body.event \in KnownEvents

\* What one call of webhook_handler does.
Answer(table, status, raised, calls, dispatched) ==
    [transactions |-> table, status |-> status, raised |-> raised, calls |-> calls,
     dispatched |-> dispatched]

\* webhook_handler answering 200 in the default case of the match.
webhook_handler_default_200(table, request, fail) ==
    LET ip == SourceIp(request)
    IN  IF ~is_ip_trusted(ip)
        THEN Answer(table, 403, FALSE, <<>>, FALSE)
        ELSE IF request.body.kind # "json"
        THEN Answer(table, 500, TRUE, <<>>, FALSE)
        ELSE IF ~FactoryAccepts(request.body)
        THEN Answer(table, 400, FALSE, <<>>, FALSE)
        ELSE LET payment_id == request.body.object.id
                 event      == request.body.event
             IN  CASE event = PAYMENT_SUCCEEDED ->
                        LET h == handle_payment_succeeded(table, payment_id, fail)
                        IN  Answer(h.transactions, IF h.raised THEN 400 ELSE 200,
                                   FALSE, h.calls, TRUE)
                   [] event = PAYMENT_CANCELED ->
                        LET h == handle_payment_canceled(table, payment_id, fail)
                        IN  Answer(h.transactions, IF h.raised THEN 400 ELSE 200,
                                   FALSE, h.calls, TRUE)
                   [] OTHER -> Answer(table, 200, FALSE, <<>>, FALSE)

\* Yookassa.webhook_handler. An exception that leaves the handler is
\* raised |-> TRUE (the HTTP server then answers 500).
webhook_handler(table, request, fail) ==
    LET ip == SourceIp(request)
    IN  IF ~is_ip_trusted(ip)
        THEN Answer(table, 403, FALSE, <<>>, FALSE)
        ELSE IF request.body.kind # "json"
        THEN \* request.json() raises, outside the try block
             Answer(table, 500, TRUE, <<>>, FALSE)
        ELSE IF ~FactoryAccepts(request.body)
        THEN Answer(table, 400, FALSE, <<>>, FALSE)
        ELSE LET payment_id == request.body.object.id
                 event      == request.body.event
             IN  CASE event = PAYMENT_SUCCEEDED ->
                        LET h == handle_payment_succeeded(table, payment_id, fail)
                        IN  Answer(h.transactions, IF h.raised THEN 400 ELSE 200,
                                   FALSE, h.calls, TRUE)
                   [] event = PAYMENT_CANCELED ->
                        LET h == handle_payment_canceled(table, payment_id, fail)
                        IN  Answer(h.transactions, IF h.raised THEN 400 ELSE 200,
                                   FALSE, h.calls, TRUE)
                   [] OTHER -> Answer(table, 400, FALSE, <<>>, FALSE)

NoWebhook == [answered |-> FALSE]

\* What may raise while a request is handled: nothing, or one of the calls the
\* handler makes for it.
FailPoints(table, request) ==
    {"none"} \cup Range(webhook_handler(table, request, "none").calls)

\* A POST to the webhook path, from anyone, handled to its response. The
\* record kept of it says what raised and, for the notification's payment id,
\* what the request found on arrival: whether the table held a row for it
\* (recorded), that row's status (before), and whether the gateway had issued
\* the id (issued).
WebhookRequest(request, fail) ==
    LET a   == webhook_handler(transactions, request, fail)
        row == IF "object" \in DOMAIN request.body
               THEN TransactionGetById(transactions, request.body.object.id)
               ELSE None
    IN  /\ transactions' = a.transactions
        /\ webhook' = [answered |-> TRUE, request |-> request, status |-> a.status,
                       raised |-> a.raised, calls |-> a.calls, fail |-> fail,
                       dispatched |-> a.dispatched,
                       recorded |-> row # None,
                       before |-> IF row # None THEN row.status ELSE "no row",
                       issued |-> /\ "object" \in DOMAIN request.body
                                  /\ request.body.object.id \in gateway_payments]
        /\ notified' = IF a.dispatched
                       THEN notified \cup {request.body.object.id}
                       ELSE notified
        /\ UNCHANGED <<gateway_payments, creating>>
        /\ UNCHANGED not_yookassa_vars

\* create_payment up to Payment.create(request): the gateway issues a new
\* payment id and may notify the webhook about it from now on.
CreatePaymentRequested(data) ==
    /\ PaymentIds \ gateway_payments # {}
    /\ LET id == CHOOSE i \in PaymentIds \ gateway_payments :
                     \A j \in PaymentIds \ gateway_payments : i <= j
       IN  /\ gateway_payments' = gateway_payments \cup {id}
           /\ creating' = creating \cup {[id |-> id, data |-> data]}
    /\ UNCHANGED <<transactions, notified, webhook>>
    /\ UNCHANGED not_yookassa_vars

\* create_payment from Transaction.create to its return; when the database
\* raises, no row is written and the exception leaves create_payment.
CreatePaymentRecorded(response, db_raises) ==
    /\ response \in creating
    /\ creating' = creating \ {response}
    /\ transactions' =
           IF db_raises
           THEN transactions
           ELSE TransactionCreate(transactions, response.data.user_id,
                                  pack(response.data), response.id, PENDING)
    /\ UNCHANGED <<gateway_payments, notified, webhook>>
    /\ UNCHANGED not_yookassa_vars

\* ----------------------------------------------------------------- Promocode

Codes == {"ABC123", "XYZ789"}

Durations == {30, 60}

\* NULL in the activated_by column.
NoUser == 0

\* The keyword arguments of Promocode.create.
CreateKwargs == [duration : Durations]

\* The keyword arguments of Promocode.update.
UpdateKwargs == [duration : Durations] \cup [is_activated : {TRUE}, activated_by : TgUsers]

\* Promocode objects a caller may have added to the session it passes: new
\* rows, not yet flushed.
PendingObjects == [code : Codes, duration : Durations]

\* The AsyncSession argument: its new objects and whether it flushes them
\* before a query.
Sessions ==
    [pending : {q \in SUBSET PendingObjects : Cardinality(q) <= MaxPending},
     autoflush : BOOLEAN]

CleanSession == [pending |-> {}, autoflush |-> TRUE]

\* select(Promocode).where(Promocode.code == code) ... scalar_one_or_none()
SelectByCode(table, code) ==
    IF \E r \in table : r.code = code
    THEN CHOOSE r \in table : r.code = code
    ELSE None

\* The column code is unique: would inserting the pending objects violate it?
ViolatesUnique(table, pending) ==
    \/ \E q \in pending : \E r \in table : r.code = q.code
    \/ \E q1, q2 \in pending : q1 # q2 /\ q1.code = q2.code

\* The rows a flush inserts for the pending objects: ids from the
\* autoincrement, the column defaults for what the object does not set.
Inserted(seq, pending) ==
    LET n  == Cardinality(pending)
        id == CHOOSE f \in [pending -> (seq + 1)..(seq + n)] :
                  \A q1, q2 \in pending : q1 # q2 => f[q1] # f[q2]
    IN  {[id |-> id[q], code |-> q.code, duration |-> q.duration,
          is_activated |-> FALSE, activated_by |-> NoUser] : q \in pending}

\* What one call of a Promocode method does.
PromoOutcome(table, seq, result, raised, integrity_error, rolled_back, logged) ==
    [table |-> table, seq |-> seq, result |-> result, raised |-> raised,
     integrity_error |-> integrity_error, rolled_back |-> rolled_back, logged |-> logged]

\* Promocode.create where the except clause lets the IntegrityError go on.
create_reraises(table, seq, session, code, kwargs) ==
    LET n == Cardinality(session.pending)
    IN  IF session.autoflush /\ ViolatesUnique(table, session.pending)
        THEN PromoOutcome(table, seq, None, TRUE, FALSE, FALSE, FALSE)
        ELSE LET seen == IF session.autoflush
                         THEN table \cup Inserted(seq, session.pending)
                         ELSE table
                 promocode == SelectByCode(seen, code)
             IN  IF ViolatesUnique(table, session.pending)
                 THEN PromoOutcome(table, seq, None, TRUE, TRUE, TRUE, TRUE)
                 ELSE PromoOutcome(table \cup Inserted(seq, session.pending), seq + n,
                                   promocode, FALSE, FALSE, FALSE, FALSE)

\* Promocode.create: select the row with the code, commit the session, return
\* what the select found. It adds no object for `code` to the session.
create(table, seq, session, code, kwargs) ==
    LET n == Cardinality(session.pending)
    IN  IF session.autoflush /\ ViolatesUnique(table, session.pending)
        THEN \* the flush before the select raises, outside the try block
             PromoOutcome(table, seq, None, TRUE, FALSE, FALSE, FALSE)
        ELSE LET seen == IF session.autoflush
                         THEN table \cup Inserted(seq, session.pending)
                         ELSE table
                 promocode == SelectByCode(seen, code)
             IN  IF ViolatesUnique(table, session.pending)
                 THEN \* commit raises IntegrityError: rollback, log, return None
                      PromoOutcome(table, seq, None, FALSE, TRUE, TRUE, TRUE)
                 ELSE PromoOutcome(table \cup Inserted(seq, session.pending), seq + n,
                                   promocode, FALSE, FALSE, FALSE, FALSE)

\* Promocode.get
get(table, code) == SelectByCode(table, code)

\* Promocode.exists
exists(table, code) == SelectByCode(table, code) # None

\* Promocode.update: UPDATE promocodes SET kwargs WHERE code = code; commit.
update(table, code, kwargs) ==
    {IF r.code = code
     THEN [k \in DOMAIN r |-> IF k \in DOMAIN kwargs THEN kwargs[k] ELSE r[k]]
     ELSE r : r \in table}

\* Promocode.delete: the table afterwards; it returns whether a row was found.
delete(table, code) == {r \in table : r.code # code}

NoPromo == [op |-> "none"]

PromocodeCreate(session, code, kwargs) ==
    LET o == create(promocodes, promocode_seq, session, code, kwargs)
    IN  /\ promocode_seq + Cardinality(session.pending) <= MaxPromocodeId
        /\ promocodes' = o.table
        /\ promocode_seq' = o.seq
        /\ promo' = [op |-> "create", code |-> code, kwargs |-> kwargs,
                     session |-> session, result |-> o.result, raised |-> o.raised,
                     integrity_error |-> o.integrity_error,
                     rolled_back |-> o.rolled_back, logged |-> o.logged,
                     existed |-> exists(promocodes, code),
                     repeated |-> promo.op = "create" /\ promo.code = code
                                  /\ promo.session.pending = {}]
        /\ UNCHANGED not_promocode_vars

PromocodeGet(code) ==
    /\ promo' = [op |-> "get", code |-> code, result |-> get(promocodes, code)]
    /\ UNCHANGED <<promocodes, promocode_seq>>
    /\ UNCHANGED not_promocode_vars

PromocodeExists(code) ==
    /\ promo' = [op |-> "exists", code |-> code, found |-> exists(promocodes, code)]
    /\ UNCHANGED <<promocodes, promocode_seq>>
    /\ UNCHANGED not_promocode_vars

PromocodeUpdate(code, kwargs) ==
    /\ promocodes' = update(promocodes, code, kwargs)
    /\ promo' = [op |-> "update", code |-> code, kwargs |-> kwargs]
    /\ UNCHANGED promocode_seq
    /\ UNCHANGED not_promocode_vars

PromocodeDelete(code) ==
    /\ promocodes' = delete(promocodes, code)
    /\ promo' = [op |-> "delete", code |-> code, deleted |-> exists(promocodes, code)]
    /\ UNCHANGED promocode_seq
    /\ UNCHANGED not_promocode_vars

\* --------------------------------------------------------- Telegram handlers

MessageIds == 1..MaxMessages

\* FSM data with no key.
EmptyData == [k \in {} |-> 0]

\* state.get_value("message_id"): None (here 0, as falsy) when the key is not set.
get_value(data, key) == IF key \in DOMAIN data THEN data[key] ELSE 0

\* state.update_data(message_id=value)
update_data(data, key, value) ==
    [k \in DOMAIN data \cup {key} |-> IF k = key THEN value ELSE data[k]]

\* What one run of a handler does.
Run(handler, chat_after, seq, data, table, subs, calls, raised, logged, details) ==
    [chat |-> chat_after, seq |-> seq, fsm |-> data, transactions |-> table,
     subscriptions |-> subs,
     record |-> [handler |-> handler, calls |-> calls, raised |-> raised,
                 logged |-> logged, details |-> details]]

\* command_main_menu where state.clear() runs only after a deletion that worked.
command_main_menu_clear_in_try(messages, seq, data, delete_raises, answer_raises, last_raises) ==
    LET command  == seq + 1
        received == messages \cup {command}
        previous_message_id == get_value(data, "message_id")
        stored   == previous_message_id # 0
        failed   == stored /\ (delete_raises \/ previous_message_id \notin received)
        deleted  == IF stored /\ ~failed
                    THEN received \ {previous_message_id} ELSE received
        cleared  == IF stored /\ ~failed THEN EmptyData ELSE data
        first    == IF ~stored THEN <<>>
                    ELSE IF failed THEN <<"bot.delete_message">>
                    ELSE <<"bot.delete_message", "state.clear">>
        sent     == seq + 2
        details  == [previous |-> previous_message_id, delete_failed |-> failed,
                     command |-> command, sent |-> IF answer_raises THEN 0 ELSE sent]
    IN  IF answer_raises
        THEN Run("command_main_menu", deleted, command, cleared, transactions,
                 subscriptions, first \o <<"message.answer">>, "message.answer",
                 failed, details)
        ELSE Run("command_main_menu",
                 IF last_raises THEN deleted \cup {sent}
                 ELSE (deleted \cup {sent}) \ {command},
                 sent, update_data(cleared, "message_id", sent), transactions,
                 subscriptions,
                 first \o <<"message.answer", "state.update_data", "message.delete">>,
                 IF last_raises THEN "message.delete" ELSE "none",
                 failed, details)

\* command_main_menu, for the /start message the user has just sent. The three
\* flags say which Telegram calls raise; deleting a message that no longer
\* exists raises too. details.sent is the id of the new main-menu message.
command_main_menu(messages, seq, data, delete_raises, answer_raises, last_raises) ==
    LET command  == seq + 1
        received == messages \cup {command}
        previous_message_id == get_value(data, "message_id")
        stored   == previous_message_id # 0
        failed   == stored /\ (delete_raises \/ previous_message_id \notin received)
        deleted  == IF stored /\ ~failed
                    THEN received \ {previous_message_id} ELSE received
        \* finally: state.clear()
        cleared  == IF stored THEN EmptyData ELSE data
        first    == IF stored THEN <<"bot.delete_message", "state.clear">> ELSE <<>>
        sent     == seq + 2
        details  == [previous |-> previous_message_id, delete_failed |-> failed,
                     command |-> command, sent |-> IF answer_raises THEN 0 ELSE sent]
    IN  IF answer_raises
        THEN Run("command_main_menu", deleted, command, cleared, transactions,
                 subscriptions, first \o <<"message.answer">>, "message.answer",
                 failed, details)
        ELSE Run("command_main_menu",
                 IF last_raises THEN deleted \cup {sent}
                 ELSE (deleted \cup {sent}) \ {command},
                 sent, update_data(cleared, "message_id", sent), transactions,
                 subscriptions,
                 first \o <<"message.answer", "state.update_data", "message.delete">>,
                 IF last_raises THEN "message.delete" ELSE "none",
                 failed, details)

\* callback_main_menu, for a button of the message callback.message.
callback_main_menu(messages, seq, data, message_id, edit_raises) ==
    Run("callback_main_menu", messages, seq,
        update_data(EmptyData, "message_id", message_id), transactions, subscriptions,
        <<"state.clear", "state.update_data", "message.edit_text">>,
        IF edit_raises THEN "message.edit_text" ELSE "none", FALSE,
        [message_id |-> message_id])

\* The invoice payload of a successful payment: SubscriptionData with the id
\* of the message the payment was started from.
PaymentDatas ==
    [user_id : TgUsers, devices : {1}, duration : {30}, is_extend : BOOLEAN,
     message_id : MessageIds]

\* telegram_payment_charge_id
ChargeIds == {1001}

\* getattr on a SubscriptionData: a field the model does not have raises
\* AttributeError.
HasAttribute(data, name) == name \in DOMAIN data

\* The calls successful_payment makes, in order, when none raises.
PaymentCalls(data, is_dev) ==
    (IF is_dev THEN <<"bot.refund_star_payment">> ELSE <<>>)
    \o <<"bot.delete_message">>
    \o (IF data.is_extend
        THEN <<"vpn.extend_subscription">> ELSE <<"vpn.create_subscription">>)
    \o <<"Transaction.create">>
    \o (IF data.is_extend THEN <<"message.answer">> ELSE <<"vpn.get_key", "message.answer">>)

\* successful_payment. `fail` names the call that raises ("none": no call);
\* bot.delete_message also raises for a message that no longer exists.
successful_payment(messages, seq, table, subs, data, charge_id, is_dev, fail) ==
    LET all == PaymentCalls(data, is_dev)
        refund_raises == is_dev /\ fail = "bot.refund_star_payment"
        delete_raises == ~refund_raises
                         /\ (fail = "bot.delete_message" \/ data.message_id \notin messages)
        details == [data |-> data, charge_id |-> charge_id, is_dev |-> is_dev,
                    delete_failed |-> delete_raises,
                    fail |-> IF delete_raises THEN "bot.delete_message" ELSE fail]
    IN  IF delete_raises
        THEN \* except Exception as e: logger.warning(f"... {data.message_idd}: {e}")
             IF HasAttribute(data, "message_idd")
             THEN Run("successful_payment", messages, seq, fsm, table, subs,
                      all, "none", TRUE, details)
             ELSE Run("successful_payment", messages, seq, fsm, table, subs,
                      CallsUntil(all, "bot.delete_message"), "AttributeError", FALSE,
                      details)
        ELSE LET calls == CallsUntil(all, fail)
                 grant == IF data.is_extend THEN "vpn.extend_subscription"
                          ELSE "vpn.create_subscription"
             IN  Run("successful_payment",
                     IF Returned(calls, fail, "message.answer")
                     THEN (messages \ {data.message_id}) \cup {seq + 1}
                     ELSE messages \ {data.message_id},
                     IF Returned(calls, fail, "message.answer") THEN seq + 1 ELSE seq,
                     fsm,
                     IF Returned(calls, fail, "Transaction.create")
                     THEN TransactionCreate(table, data.user_id, pack(data), charge_id,
                                            "success")
                     ELSE table,
                     IF Returned(calls, fail, grant)
                     THEN subs \cup {[user_id |-> data.user_id, devices |-> data.devices,
                                      duration |-> data.duration,
                                      is_extend |-> data.is_extend]}
                     ELSE subs,
                     calls, IF fail \in Range(calls) THEN fail ELSE "none", FALSE, details)

NoRun == [handler |-> "none"]

\* Apply what a run of a handler did.
Handled(run) ==
    /\ chat' = run.chat
    /\ message_seq' = run.seq
    /\ fsm' = run.fsm
    /\ transactions' = run.transactions
    /\ subscriptions' = run.subscriptions
    /\ bot' = run.record
    /\ UNCHANGED not_bot_vars

\* The user sends /start.
CommandMainMenu(delete_raises, answer_raises, last_raises) ==
    /\ message_seq + 2 <= MaxMessages
    /\ Handled(command_main_menu(chat, message_seq, fsm, delete_raises, answer_raises,
                                 last_raises))

\* The user presses the main-menu button under a message of the chat.
CallbackMainMenu(message_id, edit_raises) ==
    /\ message_id \in chat
    /\ Handled(callback_main_menu(chat, message_seq, fsm, message_id, edit_raises))

\* Telegram delivers a message with successful_payment set: the payment was
\* started from a message of the chat, and its charge id is new.
SuccessfulPayment(data, charge_id, is_dev, fail) ==
    /\ message_seq + 1 <= MaxMessages
    /\ data.message_id <= message_seq
    /\ \A t \in transactions : t.payment_id # charge_id
    /\ Handled(successful_payment(chat, message_seq, transactions, subscriptions, data,
                                  charge_id, is_dev, fail))

\* ------------------------------------------------------------------- logger

\* backupCount of the handler setup_logging installs.
backupCount == 7

\* File names of the log directory: the base filename, with the date suffix a
\* rotation appends (period, 0 for none) and the extension an archive gets.
baseFilename == [period |-> 0, ext |-> ""]

\* The record _archive_to_zip / _archive_to_gz log themselves.
ArchivingRecord == 0

exists_file(fs, name) == \E f \in fs : f.name = name

\* The data of a file; nothing for a name that does not exist.
read_file(fs, name) ==
    IF exists_file(fs, name) THEN (CHOOSE f \in fs : f.name = name).data ELSE <<>>

\* os.remove
remove(fs, name) == {f \in fs : f.name # name}

\* Create the file, or replace its data.
write_file(fs, name, data) == remove(fs, name) \cup {[name |-> name, data |-> data]}

\* os.rename
rename(fs, source, dest) ==
    write_file(remove(fs, source), dest, read_file(fs, source))

\* open(baseFilename, "a"): the file is created when it does not exist.
open_append(fs, name) ==
    IF exists_file(fs, name) THEN fs ELSE write_file(fs, name, <<>>)

\* TimedRotatingFileHandler.getFilesToDelete: the oldest rotated files beyond
\* backupCount.
getFilesToDelete(fs) ==
    LET rotated == {f.name : f \in {g \in fs : g.name.period > 0 /\ g.name.ext = ""}}
    IN  {n \in rotated :
            Cardinality({m \in rotated : m.period > n.period}) >= backupCount}

\* StreamHandler.emit on the handler's stream: what is written to a file that
\* has been unlinked is in no file of the directory.
write_stream(h, record) ==
    IF h.stream = "linked"
    THEN [h EXCEPT !.files = write_file(h.files, baseFilename,
                                        Append(read_file(h.files, baseFilename), record))]
    ELSE h

\* TimedRotatingFileHandler.doRollover (delay is False): close the stream,
\* rename the base file to its dated name, drop old backups, reopen the base
\* file, and set the next rollover to the day after `now`.
super_doRollover(h, now) ==
    LET dfn     == [period |-> h.rolloverAt - 1, ext |-> ""]
        cleared == remove(h.files, dfn)
        rotated == IF exists_file(cleared, baseFilename)
                   THEN rename(cleared, baseFilename, dfn)
                   ELSE cleared
        kept    == {f \in rotated : f.name \notin getFilesToDelete(rotated)}
    IN  [files |-> open_append(kept, baseFilename), stream |-> "linked",
         rolloverAt |-> now + 1]

\* self.rotation_filename(self.baseFilename): no namer is set, so the name is
\* returned unchanged.
rotation_filename(default_name) == default_name

\* log_file of doRollover: the name of the base file, which super().doRollover()
\* has just reopened, not the dated name the old file was renamed to.
log_file == rotation_filename(baseFilename)

\* _archive_to_zip / _archive_to_gz: log that the file is archived, then write
\* its data to the archive next to it.
archive(h, name, format, info) ==
    LET logged == IF info THEN write_stream(h, ArchivingRecord) ELSE h
    IN  [logged EXCEPT !.files =
            write_file(logged.files, [name EXCEPT !.ext = format],
                       read_file(logged.files, name))]

\* CompressingFileHandler.doRollover. Removing the file the stream is open on
\* unlinks it (POSIX): the stream stays open on a file without a name.
doRollover(h, now, format, info) ==
    LET rolled   == super_doRollover(h, now)
        name     == log_file
        archived == archive(rolled, name, format, info)
    IN  [archived EXCEPT !.files = remove(archived.files, name),
                         !.stream = IF name = baseFilename THEN "unlinked"
                                    ELSE archived.stream]

\* BaseRotatingHandler.emit: roll over when the day has come, then write the
\* record to the stream.
emit(h, now, format, info, record) ==
    LET ready == IF now >= h.rolloverAt THEN doRollover(h, now, format, info) ELSE h
    IN  write_stream(ready, record)

\* The application logs a record.
Log ==
    LET h      == [files |-> files, stream |-> stream, rolloverAt |-> rolloverAt]
        record == Len(log_history.before) + Len(log_history.since) + 1
        after  == emit(h, clock, archive_format, info_enabled, record)
    IN  /\ record <= MaxRecords
        /\ files' = after.files
        /\ stream' = after.stream
        /\ rolloverAt' = after.rolloverAt
        /\ log_history' =
               IF clock >= rolloverAt
               THEN [before |-> log_history.before \o log_history.since,
                     since |-> <<record>>, rollovers |-> log_history.rollovers + 1]
               ELSE [log_history EXCEPT !.since = Append(@, record)]
        /\ UNCHANGED <<clock, archive_format, info_enabled>>
        /\ UNCHANGED not_logger_vars

\* Midnight passes.
Tick ==
    /\ clock < MaxDays
    /\ clock' = clock + 1
    /\ UNCHANGED <<files, stream, rolloverAt, archive_format, info_enabled, log_history>>
    /\ UNCHANGED not_logger_vars

\* ---------------------------------------------------------------- the system

YookassaInit ==
    /\ transactions = {}
    /\ gateway_payments = {}
    /\ creating = {}
    /\ notified = {}
    /\ webhook = NoWebhook

PromocodeInit ==
    /\ promocodes = {}
    /\ promocode_seq = 0
    /\ promo = NoPromo

\* The FSM storage outlives the bot: it may hold the id of an old menu
\* message, which may or may not still exist, and other keys.
BotInit ==
    /\ message_seq = 1
    /\ chat \in {{}, {1}}
    /\ fsm \in {EmptyData, [message_id |-> 1], [message_id |-> 1, devices |-> 2]}
    /\ subscriptions = {}
    /\ bot = NoRun

\* setup_logging: the handler has opened its base file on day 1.
LoggerInit ==
    /\ files = {[name |-> baseFilename, data |-> <<>>]}
    /\ stream = "linked"
    /\ clock = 1
    /\ rolloverAt = 2
    /\ archive_format \in {"zip", "gz"}
    /\ info_enabled \in BOOLEAN
    /\ log_history = [before |-> <<>>, since |-> <<>>, rollovers |-> 0]

\* One chat and one logging configuration, for the specifications that leave
\* them alone.
BotIdle == BotInit /\ chat = {} /\ fsm = EmptyData

LoggerIdle == LoggerInit /\ archive_format = "zip" /\ info_enabled

Init == YookassaInit /\ PromocodeInit /\ BotIdle /\ LoggerIdle

InitBot == YookassaInit /\ PromocodeInit /\ BotInit /\ LoggerIdle

InitLogger == YookassaInit /\ PromocodeInit /\ BotIdle /\ LoggerInit

\* The YooKassa gateway: payments being created and webhook requests.
Next ==
    \/ \E request \in Requests : \E fail \in FailPoints(transactions, request) :
           WebhookRequest(request, fail)
    \/ \E data \in SubscriptionDatas : CreatePaymentRequested(data)
    \/ \E response \in creating, db_raises \in BOOLEAN :
           CreatePaymentRecorded(response, db_raises)

Spec == Init /\ [][Next]_vars

\* The Promocode table and the calls of its methods.
NextPromocode ==
    \/ \E session \in Sessions, code \in Codes, kwargs \in CreateKwargs :
           PromocodeCreate(session, code, kwargs)
    \/ \E code \in Codes : PromocodeGet(code)
    \/ \E code \in Codes : PromocodeExists(code)
    \/ \E code \in Codes, kwargs \in UpdateKwargs : PromocodeUpdate(code, kwargs)
    \/ \E code \in Codes : PromocodeDelete(code)

SpecPromocode == Init /\ [][NextPromocode]_vars

\* The Telegram handlers of one user's chat.
NextBot ==
    \/ \E delete_raises, answer_raises, last_raises \in BOOLEAN :
           CommandMainMenu(delete_raises, answer_raises, last_raises)
    \/ \E message_id \in MessageIds, edit_raises \in BOOLEAN :
           CallbackMainMenu(message_id, edit_raises)
    \/ \E data \in PaymentDatas, charge_id \in ChargeIds, is_dev \in BOOLEAN :
          \E fail \in {"none"} \cup Range(PaymentCalls(data, is_dev)) :
             SuccessfulPayment(data, charge_id, is_dev, fail)

SpecBot == InitBot /\ [][NextBot]_vars

\* The log handler: records logged as the days pass.
NextLogger ==
    \/ Log
    \/ Tick

SpecLogger == InitLogger /\ [][NextLogger]_vars

\* ------------------------------------------------------- claims: the webhook

\* The source IP of the last request, as the claims state it: the
\* X-Forwarded-For header if present, otherwise the remote address.
LastSourceIp ==
    IF webhook.request.xff # NoHeader THEN webhook.request.xff ELSE webhook.request.remote

LastFromTrustedIp == webhook.answered /\ LastSourceIp \in TrustedIps

\* The last request carried a notification of a given event.
LastEventIs(events) ==
    /\ webhook.request.body.kind = "json"
    /\ "event" \in DOMAIN webhook.request.body
    /\ webhook.request.body.event \in events

LastPaymentRecorded == webhook.recorded

\* C1 as stated: for a request from a trusted IP, the answer is 200 whenever
\* the event is PAYMENT_SUCCEEDED or PAYMENT_CANCELED for a recorded
\* transaction, 400 for every other event type, and never 200 for another
\* event type.
C1_Original ==
    LastFromTrustedIp /\ webhook.request.body.kind = "json" =>
        /\ (LastEventIs({PAYMENT_SUCCEEDED, PAYMENT_CANCELED}) /\ LastPaymentRecorded
                => webhook.status = 200)
        /\ (~LastEventIs({PAYMENT_SUCCEEDED, PAYMENT_CANCELED}) => webhook.status = 400)
        /\ (webhook.status = 200 => LastEventIs({PAYMENT_SUCCEEDED, PAYMENT_CANCELED}))

\* C1 amended: for a request from a trusted IP with a JSON body, the answer is
\* 200 when the event is PAYMENT_SUCCEEDED or PAYMENT_CANCELED for a recorded
\* transaction and no call made while handling it raises, and 400 when one
\* raises; it is 400 for every other event type, and 200 is never the answer
\* for another event type.
C1_Status200Or400 ==
    LastFromTrustedIp /\ webhook.request.body.kind = "json" =>
        /\ (LastEventIs({PAYMENT_SUCCEEDED, PAYMENT_CANCELED}) /\ LastPaymentRecorded
                => webhook.status = IF webhook.fail = "none" THEN 200 ELSE 400)
        /\ (~LastEventIs({PAYMENT_SUCCEEDED, PAYMENT_CANCELED}) => webhook.status = 400)
        /\ (webhook.status = 200 => LastEventIs({PAYMENT_SUCCEEDED, PAYMENT_CANCELED}))

\* A succeeded notification for a recorded transaction was answered 200.
C1_Witness ==
    /\ LastFromTrustedIp
    /\ LastEventIs({PAYMENT_SUCCEEDED})
    /\ LastPaymentRecorded
    /\ webhook.status = 200

\* C2: a request whose source IP (the X-Forwarded-For header if present,
\* otherwise the remote address) is not trusted is answered 403; the body is
\* not parsed, no Transaction row is read or changed and no service is called.
C2_Untrusted403 ==
    /\ [](webhook.answered /\ LastSourceIp \notin TrustedIps =>
            /\ webhook.status = 403
            /\ ~webhook.raised
            /\ webhook.calls = <<>>)
    /\ [][webhook' # webhook /\ webhook'.status = 403 =>
            transactions' = transactions /\ notified' = notified]_vars

\* An untrusted X-Forwarded-For in front of a trusted remote address, with a
\* body that is not JSON, was answered 403.
C2_Witness ==
    /\ webhook.answered
    /\ webhook.request.xff \in UntrustedIps
    /\ webhook.request.remote \in TrustedIps
    /\ webhook.request.body = NotJson
    /\ webhook.status = 403

\* C3: for a request from a trusted IP, any failure while handling it (a body
\* that is not JSON, a malformed notification, an unknown payment id, a call
\* that raises) results in a 400 response, and no exception leaves
\* webhook_handler.
C3_AllFailures400 ==
    LastFromTrustedIp =>
        /\ ~webhook.raised
        /\ (\/ webhook.request.body.kind # "json"
            \/ ~LastEventIs(KnownEvents)
            \/ ~LastPaymentRecorded
            \/ webhook.fail # "none"
                => webhook.status = 400)

\* ------------------------------------------- claims: the transaction lifecycle

RowsOf(table, payment_id) == {t \in table : t.payment_id = payment_id}

\* C7: create_payment records exactly one Transaction, keyed by the payment id
\* the gateway issued, with status PENDING; afterwards its status changes only
\* through the webhook, to COMPLETED on PAYMENT_SUCCEEDED and to CANCELED on
\* PAYMENT_CANCELED; the status is always one of the three, and a transaction
\* whose payment id received no notification is PENDING.
C7_Lifecycle ==
    /\ [](\A t \in transactions :
            /\ t.status \in {PENDING, COMPLETED, CANCELED}
            /\ t.payment_id \in gateway_payments
            /\ Cardinality(RowsOf(transactions, t.payment_id)) = 1
            /\ (t.payment_id \notin notified => t.status = PENDING))
    /\ [][\A u \in transactions' :
            \/ u \in transactions
            \/ /\ RowsOf(transactions, u.payment_id) = {}
               /\ u.status = PENDING
               /\ \E c \in creating \ creating' :
                      c.id = u.payment_id /\ u.subscription = pack(c.data)
            \/ /\ \E t \in transactions :
                      t.payment_id = u.payment_id /\ [t EXCEPT !.status = u.status] = u
               /\ webhook'.answered
               /\ webhook'.status = 200 \/ webhook'.status = 400
               /\ webhook'.request.body.object.id = u.payment_id
               /\ \/ webhook'.request.body.event = PAYMENT_SUCCEEDED /\ u.status = COMPLETED
                  \/ webhook'.request.body.event = PAYMENT_CANCELED /\ u.status = CANCELED]_vars
    /\ [][\A c \in creating \ creating' :
            \/ Cardinality(RowsOf(transactions', c.id)) = 1
            \/ transactions' = transactions]_vars

\* One recorded payment was completed by the webhook while another, never
\* notified, is still pending.
C7_Witness ==
    /\ \E t \in transactions : t.status = COMPLETED /\ t.payment_id \in notified
    /\ \E t \in transactions : t.status = PENDING /\ t.payment_id \notin notified

\* ------------------------------------------- claims: the webhook's handlers

\* The payment id of the last notification the webhook dispatched.
LastPaymentId == webhook.request.body.object.id

\* The last request was a notification of one of the events, dispatched to
\* its handler, which found the transaction's row.
LastHandled(event) ==
    /\ webhook.answered
    /\ webhook.dispatched
    /\ webhook.request.body.event = event
    /\ webhook.recorded

\* The subscription data stored in the row of the last notification's payment.
LastData == unpack(TransactionGetById(transactions, LastPaymentId).subscription)

\* The call `first` was made before the call `second`.
Precedes(calls, first, second) ==
    \E i, j \in DOMAIN calls : i < j /\ calls[i] = first /\ calls[j] = second

\* The calls of the VPN service that grant a subscription.
GrantCalls == {"vpn.create_subscription", "vpn.extend_subscription"}

\* The last request's handler had the VPN service grant a subscription: the
\* call was made and returned.
LastGranted ==
    \E c \in GrantCalls : Returned(webhook.calls, webhook.fail, c)

\* C11: handle_payment_succeeded first sets the status to COMPLETED and only
\* then grants the subscription, on exactly one branch: with is_extend it
\* calls vpn.extend_subscription and then notify_extend_success, and never
\* create_subscription or get_key; otherwise it calls vpn.create_subscription,
\* then vpn.get_key, then notify_purchase_success, and never
\* extend_subscription. When nothing raises, the whole branch is made.
C11_UpdateThenOneBranch ==
    LastHandled(PAYMENT_SUCCEEDED) =>
        LET calls == webhook.calls
            made  == Range(calls)
            extend_branch == <<"vpn.extend_subscription", "notify_extend_success">>
            create_branch == <<"vpn.create_subscription", "vpn.get_key",
                               "notify_purchase_success">>
            branch == IF LastData.is_extend THEN extend_branch ELSE create_branch
            other  == IF LastData.is_extend THEN create_branch ELSE extend_branch
        IN  /\ \A c \in made \cap (Range(branch) \cup Range(other)) :
                   /\ Precedes(calls, "Transaction.update", c)
                   /\ TransactionGetById(transactions, LastPaymentId).status = COMPLETED
            /\ made \cap Range(other) = {}
            /\ \A i, j \in DOMAIN branch :
                   i < j /\ branch[j] \in made => Precedes(calls, branch[i], branch[j])
            /\ (webhook.fail = "none" => Range(branch) \subseteq made)

\* A succeeded notification for a purchase was handled to the end: the
\* subscription was created, the key fetched and the purchase notified.
C11_Witness ==
    /\ LastHandled(PAYMENT_SUCCEEDED)
    /\ ~LastData.is_extend
    /\ webhook.fail = "none"
    /\ Precedes(webhook.calls, "Transaction.update", "vpn.create_subscription")
    /\ Precedes(webhook.calls, "vpn.get_key", "notify_purchase_success")

\* C12: handle_payment_canceled changes only the status of the transaction
\* with the given payment id, to CANCELED: it calls no VPN operation, sends no
\* notification and grants no subscription, and leaves every other row and the
\* transaction's stored subscription data as they were.
C12_CanceledChangesOnlyStatus ==
    /\ [](LastHandled(PAYMENT_CANCELED) =>
            /\ Range(webhook.calls) \subseteq {"Transaction.get_by_id", "Transaction.update"}
            /\ ~LastGranted
            /\ (webhook.fail = "none" =>
                    TransactionGetById(transactions, LastPaymentId).status = CANCELED))
    /\ [][webhook' # webhook /\ webhook'.dispatched
           /\ webhook'.request.body.event = PAYMENT_CANCELED =>
            LET id == webhook'.request.body.object.id
            IN  /\ \A t \in transactions : t.payment_id # id => t \in transactions'
                /\ \A u \in transactions' :
                       \/ u \in transactions
                       \/ /\ u.payment_id = id
                          /\ u.status = CANCELED
                          /\ \E t \in transactions : u = [t EXCEPT !.status = CANCELED]
                /\ Cardinality(transactions') = Cardinality(transactions)]_vars

\* A canceled notification canceled a pending transaction while the row of
\* another payment kept a status that is not CANCELED.
C12_Witness ==
    /\ LastHandled(PAYMENT_CANCELED)
    /\ webhook.fail = "none"
    /\ webhook.before = PENDING
    /\ TransactionGetById(transactions, LastPaymentId).status = CANCELED
    /\ \E t \in transactions : t.payment_id # LastPaymentId /\ t.status # CANCELED

\* How many subscriptions the last request's handler had the VPN service
\* grant.
LastGrants ==
    Cardinality({i \in DOMAIN webhook.calls :
                    webhook.calls[i] \in GrantCalls /\ webhook.calls[i] # webhook.fail})

\* The success notification of the last request's handler was sent.
LastNotifiedSuccess ==
    \E c \in {"notify_extend_success", "notify_purchase_success"} :
        Returned(webhook.calls, webhook.fail, c)

\* C13 as stated: a PAYMENT_SUCCEEDED notification for a transaction that is
\* already COMPLETED is answered 200, leaves the status COMPLETED and has the
\* subscription granted and the success notified once more; and every
\* succeeded notification processed for a payment id grants one subscription,
\* so that the grants equal the notifications processed.
C13_Original ==
    LastHandled(PAYMENT_SUCCEEDED) =>
        /\ (webhook.before = COMPLETED =>
                /\ webhook.status = 200
                /\ TransactionGetById(transactions, LastPaymentId).status = COMPLETED
                /\ LastGranted
                /\ LastNotifiedSuccess)
        /\ LastGrants = 1

\* C13 amended: there is no idempotency check. A PAYMENT_SUCCEEDED
\* notification for a transaction that is already COMPLETED leaves it
\* COMPLETED, and is handled as the first delivery is: when no call raises it
\* is answered 200 and the subscription is granted and the success notified
\* once more; when a call raises it is answered 400. Whatever the status was
\* on arrival, a succeeded notification answered 200 grants exactly one
\* subscription and one answered 400 grants at most one.
C13_NoIdempotency ==
    LastHandled(PAYMENT_SUCCEEDED) =>
        /\ (webhook.before = COMPLETED =>
                TransactionGetById(transactions, LastPaymentId).status = COMPLETED)
        /\ (webhook.fail = "none" =>
                /\ webhook.status = 200
                /\ TransactionGetById(transactions, LastPaymentId).status = COMPLETED
                /\ LastGranted
                /\ LastNotifiedSuccess)
        /\ (webhook.fail # "none" => webhook.status = 400)
        /\ (webhook.status = 200 => LastGrants = 1)
        /\ LastGrants <= 1

\* A succeeded notification arrived for a transaction that was already
\* COMPLETED, was answered 200, and the subscription was granted again.
C13_Witness ==
    /\ LastHandled(PAYMENT_SUCCEEDED)
    /\ webhook.before = COMPLETED
    /\ webhook.status = 200
    /\ LastGranted
    /\ LastNotifiedSuccess

\* C14: COMPLETED and CANCELED are terminal. Whatever notifications arrive
\* for a payment id, a COMPLETED transaction never becomes CANCELED or
\* PENDING and a CANCELED one never becomes COMPLETED; no subscription is
\* granted for a canceled payment.
C14_TerminalStatuses ==
    /\ [][\A t \in transactions : \A u \in transactions' :
            u.payment_id = t.payment_id =>
                /\ (t.status = COMPLETED => u.status = COMPLETED)
                /\ (t.status = CANCELED => u.status # COMPLETED)]_vars
    /\ [](webhook.answered /\ webhook.dispatched /\ webhook.before = CANCELED
            => ~LastGranted)

\* C15: after webhook_handler has handled a PAYMENT_SUCCEEDED notification,
\* the transaction is COMPLETED only if the subscription was created or
\* extended: a failure of the main-menu redirect, of the VPN service or of the
\* key lookup never leaves a transaction COMPLETED with nothing granted, and
\* a 400 answer means the status was not changed.
C15_CompletedOnlyIfGranted ==
    LastHandled(PAYMENT_SUCCEEDED) =>
        LET status == TransactionGetById(transactions, LastPaymentId).status
        IN  /\ (webhook.before # COMPLETED /\ status = COMPLETED => LastGranted)
            /\ (webhook.status = 400 => status = webhook.before)

\* C16: however create_payment and the webhook interleave, a notification
\* for a payment id the gateway has issued to create_payment finds that
\* payment's row: the webhook never handles the id between Payment.create
\* and the commit of Transaction.create, such a notification is never
\* answered 400 for a missing transaction, and the transaction is never left
\* PENDING after its succeeded notification was received.
C16_NotificationFindsRow ==
    /\ webhook.answered
    /\ webhook.dispatched
    /\ webhook.issued
    /\ webhook.fail = "none"
    => /\ webhook.recorded
       /\ webhook.status = 200
       /\ LastPaymentId \notin {c.id : c \in creating}
       /\ (webhook.request.body.event = PAYMENT_SUCCEEDED =>
               \A t \in transactions : t.payment_id = LastPaymentId => t.status # PENDING)

\* ------------------------------------------------------- claims: Promocode

RowsWithCode(table, code) == {r \in table : r.code = code}

\* A call of Promocode.create on a session that holds no other new objects.
LastIsPlainCreate == promo.op = "create" /\ promo.session.pending = {}

\* C4: calling Promocode.create twice with the same code leaves the table as
\* calling it once does, with exactly one row for that code.
C4_CreateIdempotent ==
    [][promo' # promo /\ promo'.op = "create" /\ promo'.session.pending = {}
       /\ promo'.repeated =>
            /\ promocodes' = promocodes
            /\ Cardinality(RowsWithCode(promocodes', promo'.code)) = 1]_vars

\* C5: Promocode.create with a code that is not in the table creates a row
\* with that code and the given attributes and returns it; afterwards exists
\* is True and get returns the created row.
C5_CreateInserts ==
    LastIsPlainCreate /\ ~promo.existed =>
        /\ promo.result # None
        /\ promo.result.code = promo.code
        /\ promo.result.duration = promo.kwargs.duration
        /\ exists(promocodes, promo.code)
        /\ get(promocodes, promo.code) = promo.result

\* C6: an IntegrityError raised by the commit in Promocode.create is caught:
\* the session is rolled back, the error is logged, None is returned, no
\* exception leaves create and the table is as it was before the call.
C6_IntegrityErrorCaught ==
    /\ [](promo.op = "create" /\ promo.integrity_error =>
            /\ ~promo.raised
            /\ promo.rolled_back
            /\ promo.logged
            /\ promo.result = None)
    /\ [][promo' # promo /\ promo'.op = "create" /\ promo'.integrity_error =>
            promocodes' = promocodes /\ promocode_seq' = promocode_seq]_vars

\* The commit of a create call raised IntegrityError: the session held a new
\* object whose code a row of the table already has.
C6_Witness ==
    /\ promo.op = "create"
    /\ promo.integrity_error
    /\ ~promo.session.autoflush
    /\ \E q \in promo.session.pending : \E r \in promocodes : r.code = q.code

\* ----------------------------------------------- claims: the Telegram handlers

\* C8: in command_main_menu, when a previous menu message id is stored in the
\* FSM state, a failure to delete that message is logged and swallowed: the
\* state is cleared whether or not the deletion worked, the new main-menu
\* message is still sent, and when the handler finishes the stored message_id
\* is the id of the newly sent message.
C8_StartSwallowsDeleteFailure ==
    bot.handler = "command_main_menu" /\ bot.details.previous # 0 =>
        /\ "state.clear" \in Range(bot.calls)
        /\ DOMAIN fsm \subseteq {"message_id"}
        /\ (bot.details.delete_failed =>
                /\ bot.logged
                /\ bot.raised # "bot.delete_message"
                /\ "message.answer" \in Range(bot.calls))
        /\ (bot.raised = "none" =>
                /\ bot.details.sent # 0
                /\ bot.details.sent \in chat
                /\ fsm = [message_id |-> bot.details.sent])

\* /start ran with a stored menu message id whose deletion failed, and
\* finished with the new message's id stored.
C8_Witness ==
    /\ bot.handler = "command_main_menu"
    /\ bot.details.previous # 0
    /\ bot.details.delete_failed
    /\ bot.raised = "none"
    /\ fsm = [message_id |-> bot.details.sent]

\* C9: in successful_payment, a failure to delete the payment message is
\* logged and swallowed: the handler still creates or extends the VPN
\* subscription, records the Transaction with status "success" and sends the
\* success reply.
C9_PaymentSwallowsDeleteFailure ==
    /\ bot.handler = "successful_payment"
    /\ bot.details.delete_failed
    /\ bot.details.fail = "bot.delete_message"
    => /\ bot.logged
       /\ bot.raised = "none"
       /\ \E g \in subscriptions :
              g.user_id = bot.details.data.user_id
              /\ g.is_extend = bot.details.data.is_extend
       /\ \E t \in transactions :
              t.payment_id = bot.details.charge_id /\ t.status = "success"
       /\ "message.answer" \in Range(bot.calls)

\* --------------------------------------------------------- claims: the logger

\* The records some archive of the configured format holds.
Archived ==
    UNION {Range(f.data) : f \in {g \in files : g.name.ext = archive_format}}

\* C10: on each rollover doRollover archives the rotated log file in the
\* configured format and deletes only that rotated file: after a rollover the
\* records written before it are in an archive, no rotated file is left
\* unarchived, and the active log file exists and holds the records logged
\* since.
C10_RolloverArchivesRotated ==
    log_history.rollovers > 0 =>
        /\ Range(log_history.before) \subseteq Archived
        /\ \A f \in files : f.name.period = 0
        /\ exists_file(files, baseFilename)
        /\ Range(log_history.since) \subseteq Range(read_file(files, baseFilename))

====
